---------------------------- MODULE Spec2Model ----------------------------
(***************************************************************************)
(* Spark-compatible murmur3 hashing of Arrow columns and the hash-to-      *)
(* partition mapping, modelled from                                        *)
(*   src/core/src/execution/datafusion/spark_hash.rs                       *)
(*                                                                         *)
(* Number representation.  The model checker's integers are the signed     *)
(* 32-bit integers, which is exactly Rust's i32; an i32 of the source is   *)
(* an integer of the model and every arithmetic step on it is written so   *)
(* that no intermediate value leaves that range.  A u32 of the source is   *)
(* a pair of 16-bit limbs <<low, high>> and a usize (64 bits) is four      *)
(* 16-bit limbs, least significant first, so the casts `as i32`, `as u32`  *)
(* and `as usize` of the source are real conversions in the model.         *)
(***************************************************************************)
EXTENDS Integers, Sequences, FiniteSets, TLC

VARIABLES
  target_endian,    \* build: cfg!(target_endian), "little" or "big"
  overflow_checks,  \* build: TRUE when `+` on i32 panics on overflow (debug), FALSE when it wraps
  arrays,           \* the column list of the experiment, as indices into Columns
  initial,          \* the seed array the caller pre-filled
  pc,               \* "start", "called" (create_hashes has returned)
  hashes_buffer,    \* caller's seed array handed to the one create_hashes call
  result,           \* what that call returned
  chain,            \* second copy of the seed array, hashed by one call per column
  chainPrev,        \* chain before the latest single-column call
  chainIdx,         \* number of single-column calls made on chain
  chainResult,      \* what the latest single-column call returned
  chainAllOk,       \* every single-column call so far returned Ok
  chunked,          \* third copy of the seed array, hashed batch by batch
  chunkPos,         \* rows of chunked already covered by a batch
  chunkLast,        \* first row of the latest batch
  chunkAllOk,       \* every batch call so far returned Ok
  data,             \* byte string handed to spark_compatible_murmur3_hash
  seed,             \* its seed
  digest,           \* <<>> before the call, <<h>> once it returned h
  hash,             \* the u32 handed to pmod
  n,                \* the usize partition count handed to pmod
  partition         \* <<>> before the call, <<r>> once pmod produced r

hashVars == <<arrays, initial, pc, hashes_buffer, result, chain, chainPrev, chainIdx,
              chainResult, chainAllOk, chunked, chunkPos, chunkLast, chunkAllOk>>
murmurVars == <<data, seed, digest>>
pmodVars == <<hash, n, partition>>
vars == <<target_endian, overflow_checks, hashVars, murmurVars, pmodVars>>

---------------------------------------------------------------------------
(* Bounds of the model *)

NumRows == 3        \* rows of every column and of the seed array
MaxCols == 2        \* longest column list handed to one create_hashes call

---------------------------------------------------------------------------
(* 32-bit two's complement arithmetic on the i32 of the source *)

MinI32 == (-2147483647) - 1

Lo16(v) == v % 65536
Hi16(v) == (v \div 65536) % 65536

\* the i32 whose bit pattern has the given high and low 16 bits
FromHalves(hi, lo) == IF hi >= 32768 THEN ((hi - 65536) * 65536) + lo ELSE (hi * 65536) + lo

RECURSIVE XorBits(_, _, _)
XorBits(a, b, bits) ==
  IF bits = 0 THEN 0 ELSE ((a + b) % 2) + (2 * XorBits(a \div 2, b \div 2, bits - 1))

XorTable == [a \in 0..255 |-> [b \in 0..255 |-> XorBits(a, b, 8)]]

Xor16(a, b) == XorTable[a % 256][b % 256] + (256 * XorTable[a \div 256][b \div 256])

\* The operations on i32 are functions on the integers: an operation is applied to
\* the values of its operands, as in the source.

\* `^` on i32
bitxor[a \in Int, b \in Int] == FromHalves(Xor16(Hi16(a), Hi16(b)), Xor16(Lo16(a), Lo16(b)))

\* low 16 bits of the product of two 16-bit numbers
Mul16(p, q) == ((p % 256) * q + ((((p \div 256) * (q % 256)) % 256) * 256)) % 65536

\* i32::mul_wrapping
mul_wrapping[a \in Int, b \in Int] ==
  LET al == Lo16(a)
      ah == Hi16(a)
      bl == Lo16(b)
      bh == Hi16(b)
      p0 == (al % 256) * bl
      p1 == (al \div 256) * bl
      t  == p0 + ((p1 % 256) * 256)
      carry == (t \div 65536) + (p1 \div 256)
  IN FromHalves((carry + Mul16(ah, bl) + Mul16(al, bh)) % 65536, t % 65536)

\* i32::add_wrapping
add_wrapping[a \in Int, b \in Int] ==
  LET lo == Lo16(a) + Lo16(b)
      hi == Hi16(a) + Hi16(b) + (lo \div 65536)
  IN FromHalves(hi % 65536, lo % 65536)

Pow2(e) == 2 ^ e

\* i32::rotate_left(r) for 0 < r < 16
rotate_left[v \in Int, r \in 1..15] ==
  LET lo == Lo16(v)
      hi == Hi16(v)
  IN FromHalves(((hi * Pow2(r)) % 65536) + (lo \div Pow2(16 - r)),
                ((lo * Pow2(r)) % 65536) + (hi \div Pow2(16 - r)))

\* (v as u32 >> r) as i32 for 0 < r <= 16
shr[v \in Int, r \in 1..16] ==
  FromHalves(Hi16(v) \div Pow2(r), (Lo16(v) \div Pow2(r)) + ((Hi16(v) % Pow2(r)) * Pow2(16 - r)))

RECURSIVE RevBits(_, _)
RevBits(a, bits) ==
  IF bits = 0 THEN 0 ELSE ((a % 2) * (2 ^ (bits - 1))) + RevBits(a \div 2, bits - 1)

RevTable == [a \in 0..255 |-> RevBits(a, 8)]

Rev16(a) == (RevTable[a % 256] * 256) + RevTable[a \div 256]

\* i32::reverse_bits: bit 0 becomes bit 31, bit 1 becomes bit 30, ...
reverse_bits[v \in Int] == FromHalves(Rev16(Lo16(v)), Rev16(Hi16(v)))

\* the casts between i32, u32 (two limbs) and usize (four limbs)
as_i32(limbs) == FromHalves(limbs[2], limbs[1])
as_u32(v) == <<Lo16(v), Hi16(v)>>
as_usize(v) == IF v < 0 THEN <<Lo16(v), Hi16(v), 65535, 65535>> ELSE <<Lo16(v), Hi16(v), 0, 0>>

\* the u32 written 0xHHHHLLLL, given as its two halves
U32(hi, lo) == <<lo, hi>>

---------------------------------------------------------------------------
(* spark_compatible_murmur3_hash *)

mix_k1(k1) ==
  mul_wrapping[rotate_left[mul_wrapping[k1, FromHalves(52382, 11601)], 15],
               FromHalves(7047, 13715)]

mix_h1(h1, k1) ==
  add_wrapping[mul_wrapping[rotate_left[bitxor[h1, k1], 13], 5], FromHalves(58964, 27492)]

\* h1 ^= h1 >> r
xor_shr(h1, r) == bitxor[h1, shr[h1, r]]

fmix(h1, len) ==
  xor_shr(mul_wrapping[xor_shr(mul_wrapping[xor_shr(bitxor[h1, len], 16),
                                            FromHalves(34283, 51819)],
                               13),
                       FromHalves(49842, 44597)],
          16)

\* ints.read_unaligned(): the four bytes at bytes[pos..pos+3] in the target's byte order
read_unaligned(bytes, pos, endian) ==
  IF endian = "big"
    THEN FromHalves((bytes[pos] * 256) + bytes[pos + 1], (bytes[pos + 2] * 256) + bytes[pos + 3])
    ELSE FromHalves((bytes[pos + 3] * 256) + bytes[pos + 2], (bytes[pos + 1] * 256) + bytes[pos])

\* the word mixed for the four bytes at pos: on a big-endian target its bits are reversed
half_word(bytes, pos, endian) ==
  IF endian = "big" THEN reverse_bits[read_unaligned(bytes, pos, endian)]
                    ELSE read_unaligned(bytes, pos, endian)

\* The loops of the source are folds: step k of a loop is entry k of a function
\* defined by recursion on k.  Each step takes the previous h1 only once it is
\* evaluated (the test `prev \in Int`), so that a loop does not nest as deep as
\* its input is long.

\* the loop `for i in (0..data.len()).step_by(4)` over the first len_aligned bytes
hash_bytes_by_int(bytes, len_aligned, start, endian) ==
  LET h1[k \in 0..(len_aligned \div 4)] ==
        IF k = 0 THEN start
        ELSE LET prev == h1[k - 1]
             IN IF prev \in Int
                  THEN mix_h1(prev, mix_k1(half_word(bytes, (4 * k) - 3, endian)))
                  ELSE prev
  IN h1[len_aligned \div 4]

\* *data.get_unchecked(i) as i8 as i32
tail_byte(b) == IF b >= 128 THEN b - 256 ELSE b

\* the loop `for i in len_aligned..len`
hash_tail(bytes, len_aligned, start) ==
  LET h1[k \in 0..(Len(bytes) - len_aligned)] ==
        IF k = 0 THEN start
        ELSE LET prev == h1[k - 1]
             IN IF prev \in Int
                  THEN mix_h1(prev, mix_k1(tail_byte(bytes[len_aligned + k])))
                  ELSE prev
  IN h1[Len(bytes) - len_aligned]

murmur3(bytes, s, endian) ==
  LET total == Len(bytes)
      len_aligned == total - (total % 4)
      words == hash_bytes_by_int(bytes, len_aligned, as_i32(s), endian)
  IN as_u32(fmix(hash_tail(bytes, len_aligned, words), total))

spark_compatible_murmur3_hash(bytes, s) == murmur3(bytes, s, target_endian)


---------------------------------------------------------------------------
(* Canonical bytes of the values *)

\* v.to_le_bytes() of a signed integer of `width` bytes (4, 8 or 16), two's complement
to_le_bytes(v, width) ==
  [i \in 1..width |->
     CASE i = 1 -> Lo16(v) % 256
       [] i = 2 -> Lo16(v) \div 256
       [] i = 3 -> Hi16(v) % 256
       [] i = 4 -> Hi16(v) \div 256
       [] OTHER -> IF v < 0 THEN 255 ELSE 0]

\* byte width of the integer type a primitive value is cast to before hashing
width_of(ty) == CASE ty = "i32" -> 4 [] ty = "i64" -> 8 [] ty = "i128" -> 16

\* A float is [neg, exp, frac]: sign bit, biased exponent, and the fraction as 16-bit
\* limbs, least significant first (f32: 16 + 7 bits, f64: 16 + 16 + 16 + 4 bits).
\* f32::to_le_bytes / f64::to_le_bytes: the IEEE-754 bit pattern
float_to_le_bytes(v, ty) ==
  LET s == IF v.neg THEN 128 ELSE 0
      f == v.frac
  IN IF ty = "f32"
       THEN << f[1] % 256, f[1] \div 256, f[2] + ((v.exp % 2) * 128), (v.exp \div 2) + s >>
       ELSE << f[1] % 256, f[1] \div 256, f[2] % 256, f[2] \div 256, f[3] % 256, f[3] \div 256,
               f[4] + ((v.exp % 16) * 16), (v.exp \div 16) + s >>

\* *value == 0.0
float_is_zero(v) == v.exp = 0 /\ \A k \in DOMAIN v.frac : v.frac[k] = 0

\* value.is_sign_negative()
is_sign_negative(v) == v.neg

---------------------------------------------------------------------------
(* Arrow arrays.  A column is a record: data_type, the validity of each slot  *)
(* (valid) and the value buffer (values); a dictionary column holds its keys   *)
(* in values and its distinct-value array, itself a column, in dictionary.     *)

array_len(array) == Len(array.valid)
is_null(array, row) == ~array.valid[row]
null_count(array) == Cardinality({i \in 1..array_len(array) : ~array.valid[i]})

---------------------------------------------------------------------------
(* The per-type loops of create_hashes.  hashes has one entry per row of the  *)
(* array (the caller pre-sizes it).                                           *)

\* macro hash_array!: text and binary, the raw bytes of the value
hash_array(array, hashes) ==
  IF null_count(array) = 0
    THEN [i \in DOMAIN hashes |-> spark_compatible_murmur3_hash(array.values[i], hashes[i])]
    ELSE [i \in DOMAIN hashes |->
            IF ~is_null(array, i)
              THEN spark_compatible_murmur3_hash(array.values[i], hashes[i])
              ELSE hashes[i]]

\* hash_array_primitive whose loop for arrays without nulls seeds every row from
\* the first row's seed
hash_array_primitive_first_seed(array, ty, hashes) ==
  IF null_count(array) = 0
    THEN [i \in DOMAIN hashes |->
            spark_compatible_murmur3_hash(to_le_bytes(array.values[i], width_of(ty)), hashes[1])]
    ELSE [i \in DOMAIN hashes |->
            IF ~is_null(array, i)
              THEN spark_compatible_murmur3_hash(to_le_bytes(array.values[i], width_of(ty)),
                                                 hashes[i])
              ELSE hashes[i]]

\* macro hash_array_primitive!: (*value as $ty).to_le_bytes()
hash_array_primitive(array, ty, hashes) ==
  IF null_count(array) = 0
    THEN [i \in DOMAIN hashes |->
            spark_compatible_murmur3_hash(to_le_bytes(array.values[i], width_of(ty)), hashes[i])]
    ELSE [i \in DOMAIN hashes |->
            IF ~is_null(array, i)
              THEN spark_compatible_murmur3_hash(to_le_bytes(array.values[i], width_of(ty)),
                                                 hashes[i])
              ELSE hashes[i]]

\* hash_float_value without the test for negative zero: always the bit pattern
hash_float_bits(value, ty, ty2, h) ==
  spark_compatible_murmur3_hash(float_to_le_bytes(value, ty), h)

\* the body of both loops of hash_array_primitive_float!: one non-null float value
hash_float_value(value, ty, ty2, h) ==
  IF float_is_zero(value) /\ is_sign_negative(value)
    THEN spark_compatible_murmur3_hash(to_le_bytes(0, width_of(ty2)), h)
    ELSE spark_compatible_murmur3_hash(float_to_le_bytes(value, ty), h)

\* macro hash_array_primitive_float!
hash_array_primitive_float(array, ty, ty2, hashes) ==
  IF null_count(array) = 0
    THEN [i \in DOMAIN hashes |-> hash_float_value(array.values[i], ty, ty2, hashes[i])]
    ELSE [i \in DOMAIN hashes |->
            IF ~is_null(array, i)
              THEN hash_float_value(array.values[i], ty, ty2, hashes[i])
              ELSE hashes[i]]

\* macro hash_array_decimal!: the i128 unscaled value
hash_array_decimal(array, hashes) ==
  IF null_count(array) = 0
    THEN [i \in DOMAIN hashes |->
            spark_compatible_murmur3_hash(to_le_bytes(array.values[i], width_of("i128")), hashes[i])]
    ELSE [i \in DOMAIN hashes |->
            IF ~is_null(array, i)
              THEN spark_compatible_murmur3_hash(to_le_bytes(array.values[i], width_of("i128")),
                                                 hashes[i])
              ELSE hashes[i]]

\* the DataType::Boolean arm: i32::from(array.value(i)).to_le_bytes()
hash_array_boolean(array, hashes) ==
  IF null_count(array) = 0
    THEN [i \in DOMAIN hashes |->
            spark_compatible_murmur3_hash(to_le_bytes(IF array.values[i] THEN 1 ELSE 0, 4),
                                          hashes[i])]
    ELSE [i \in DOMAIN hashes |->
            IF ~is_null(array, i)
              THEN spark_compatible_murmur3_hash(to_le_bytes(IF array.values[i] THEN 1 ELSE 0, 4),
                                                 hashes[i])
              ELSE hashes[i]]

---------------------------------------------------------------------------
(* What a call returns: Result<..> or a panic, and the buffer as it is left *)

Ok(buf) == [status |-> "Ok", buf |-> buf, msg |-> "", data_type |-> <<>>, key |-> 0]
Err(buf, msg, dt, key) == [status |-> "Err", buf |-> buf, msg |-> msg, data_type |-> dt, key |-> key]
Panicked(buf, msg) == [status |-> "panic", buf |-> buf, msg |-> msg, data_type |-> <<>>, key |-> 0]

\* key.to_usize(): <<>> is None, <<k>> is Some(k)
to_usize(key) == IF key < 0 THEN <<>> ELSE <<key>>

\* the loop of create_hashes_dictionary over hashes_buffer zipped with the keys:
\* after[k] is the buffer and the outcome once rows 1..k are done; a row that
\* fails ends the loop and leaves the rows after it untouched
dictionary_rows(dict_array, dict_hashes, hashes) ==
  LET after[k \in 0..Len(hashes)] ==
        IF k = 0 THEN Ok(hashes)
        ELSE LET prev == after[k - 1]
             IN IF prev.status # "Ok" \/ is_null(dict_array, k) THEN prev
                ELSE LET key == dict_array.values[k]
                         idx == to_usize(key)
                     IN IF idx = <<>>
                          THEN Err(prev.buf,
                                   "Can not convert key value to usize in dictionary of type",
                                   dict_array.data_type, key)
                        ELSE IF idx[1] >= Len(dict_hashes)
                          THEN Panicked(prev.buf, "index out of bounds")
                        ELSE Ok([prev.buf EXCEPT ![k] = dict_hashes[idx[1] + 1]])
  IN after[Len(hashes)]

\* the index types with a text type let through
index_types_and_text ==
  {"Int8", "Int16", "Int32", "Int64", "UInt8", "UInt16", "UInt32", "UInt64", "Utf8"}

supported_index_types == {"Int8", "Int16", "Int32", "Int64", "UInt8", "UInt16", "UInt32", "UInt64"}

RECURSIVE create_hashes(_, _)

\* `create_hashes(&[dict_values], &mut dict_hashes)?` and the loop after it: when
\* the call on the values fails, its error is returned and hashes is as it was
dictionary_fan_out(array, inner, hashes) ==
  IF inner.status # "Ok"
    THEN [inner EXCEPT !.buf = hashes]
    ELSE dictionary_rows(array, inner.buf, hashes)

\* dict_hashes starting from the default seed instead of zero
default_seed_hashes(dict_values) == [i \in 1..array_len(dict_values) |-> as_u32(42)]

\* let mut dict_hashes = vec![0; dict_values.len()]
zero_hashes(dict_values) == [i \in 1..array_len(dict_values) |-> as_u32(0)]

create_hashes_dictionary(array, hashes) ==
  dictionary_fan_out(array,
                     create_hashes(<<array.dictionary>>, zero_hashes(array.dictionary)),
                     hashes)

\* one iteration of `for col in arrays`: the match on col.data_type()
hash_column(col, hashes) ==
  LET dt == col.data_type
      t  == dt[1]
  IN CASE t = "Boolean" -> Ok(hash_array_boolean(col, hashes))
       [] t \in {"Int8", "Int16", "Int32", "Date32"} ->
            Ok(hash_array_primitive(col, "i32", hashes))
       [] t \in {"Int64", "Timestamp", "Date64"} ->
            Ok(hash_array_primitive(col, "i64", hashes))
       [] t = "Float32" -> Ok(hash_array_primitive_float(col, "f32", "i32", hashes))
       [] t = "Float64" -> Ok(hash_array_primitive_float(col, "f64", "i64", hashes))
       [] t \in {"Utf8", "LargeUtf8", "Binary", "LargeBinary", "FixedSizeBinary"} ->
            Ok(hash_array(col, hashes))
       [] t = "Decimal128" -> Ok(hash_array_decimal(col, hashes))
       [] t = "Dictionary" ->
            IF dt[2] \in supported_index_types
              THEN create_hashes_dictionary(col, hashes)
              ELSE Err(hashes, "Unsupported dictionary type in hasher hashing", dt, 0)
       [] OTHER -> Err(hashes, "Unsupported data type in hasher", dt, 0)

\* create_hashes taking the columns last to first
create_hashes_reversed(cols, hashes) ==
  LET done[k \in 0..Len(cols)] ==
        IF k = 0 THEN Ok(hashes)
        ELSE LET prev == done[k - 1]
             IN IF prev.status # "Ok" THEN prev
                ELSE hash_column(cols[(Len(cols) - k) + 1], prev.buf)
  IN done[Len(cols)]

\* `for col in arrays`: done[k] is the buffer and the outcome after the first k
\* columns; a column that fails ends the call
create_hashes(cols, hashes) ==
  LET done[k \in 0..Len(cols)] ==
        IF k = 0 THEN Ok(hashes)
        ELSE LET prev == done[k - 1]
             IN IF prev.status # "Ok" THEN prev ELSE hash_column(cols[k], prev.buf)
  IN done[Len(cols)]

---------------------------------------------------------------------------
(* pmod *)

\* Rust's `a % b` on i32 where it does not panic: the remainder truncated toward zero
rem(a, b) ==
  IF b = MinI32 THEN (IF a = MinI32 THEN 0 ELSE a)
  ELSE LET m == IF b < 0 THEN -b ELSE b
           f == a % m
       IN IF a < 0 /\ f # 0 THEN f - m ELSE f

\* whether Rust's `a % b` on i32 panics (zero divisor, or i32::MIN % -1)
rem_panics(a, b) == b = 0 \/ (a = MinI32 /\ b = -1)

\* whether `a + b` leaves the i32 range, for a < 0
add_overflows(a, b) == b < 0 /\ a < MinI32 - b

partition_of(value) == [panic |-> FALSE, value |-> as_usize(value)]
pmod_panic == [panic |-> TRUE, value |-> <<0, 0, 0, 0>>]

\* pmod without the correction of a negative remainder
pmod_truncating(h, count) ==
  IF rem_panics(as_i32(h), as_i32(count)) THEN pmod_panic
  ELSE partition_of(rem(as_i32(h), as_i32(count)))

pmod(h, count) ==
  LET hash_i == as_i32(h)
      n_i == as_i32(count)
  IN IF rem_panics(hash_i, n_i) THEN pmod_panic
     ELSE LET r == rem(hash_i, n_i)
          IN IF r < 0
               THEN IF add_overflows(r, n_i) /\ overflow_checks THEN pmod_panic
                    ELSE LET sum == add_wrapping[r, n_i]
                         IN IF rem_panics(sum, n_i) THEN pmod_panic
                            ELSE partition_of(rem(sum, n_i))
               ELSE partition_of(r)

---------------------------------------------------------------------------
(* Sample columns.  Every column has NumRows slots; the samples repeat when  *)
(* there are more rows than samples.                                         *)

Cycle(samples, row) == samples[((row - 1) % Len(samples)) + 1]

PrimitiveArray(dt, samples, nulls) ==
  [data_type |-> dt,
   valid |-> [i \in 1..NumRows |-> i \notin nulls],
   values |-> [i \in 1..NumRows |-> Cycle(samples, i)]]

\* the distinct-value array of a dictionary: as long as its list of values
ValuesArray(dt, values, nulls) ==
  [data_type |-> dt, valid |-> [i \in 1..Len(values) |-> i \notin nulls], values |-> values]

DictionaryArray(index_type, keys, nulls, dictionary) ==
  [data_type |-> <<"Dictionary", index_type>> \o dictionary.data_type,
   valid |-> [i \in 1..NumRows |-> i \notin nulls],
   values |-> [i \in 1..NumRows |-> Cycle(keys, i)],
   dictionary |-> dictionary]

F32(neg, exp, f1, f0) == [neg |-> neg, exp |-> exp, frac |-> <<f0, f1>>]
F64(neg, exp, f3, f2, f1, f0) == [neg |-> neg, exp |-> exp, frac |-> <<f0, f1, f2, f3>>]

hello == <<104, 101, 108, 108, 111>>
bar == <<98, 97, 114>>
grin == <<240, 159, 152, 129>>
heaven_earth == <<229, 164, 169, 229, 156, 176>>

Texts == ValuesArray(<<"Utf8">>, <<hello, heaven_earth>>, {})

Columns == <<
  \*  1.. 6: Boolean and the integers
  PrimitiveArray(<<"Boolean">>, <<TRUE, FALSE, TRUE>>, {2}),
  PrimitiveArray(<<"Int8">>, <<1, 0, -1, 127, -128>>, {}),
  PrimitiveArray(<<"Int8">>, <<1, 0, -1, 127, -128>>, {2}),
  PrimitiveArray(<<"Int16">>, <<-32768, 32767, 5>>, {1}),
  PrimitiveArray(<<"Int32">>, <<1, 2147483647, MinI32>>, {}),
  PrimitiveArray(<<"Int64">>, <<1, 0, -1>>, {3}),
  \*  7..10: the floats: 1.0, 0.0, -0.0, -1.0, a NaN
  PrimitiveArray(<<"Float32">>,
                 <<F32(FALSE, 0, 0, 0), F32(TRUE, 0, 0, 0), F32(FALSE, 127, 0, 0)>>, {}),
  PrimitiveArray(<<"Float32">>,
                 <<F32(TRUE, 0, 0, 0), F32(TRUE, 127, 0, 0), F32(FALSE, 255, 64, 0)>>, {2}),
  PrimitiveArray(<<"Float64">>,
                 <<F64(TRUE, 0, 0, 0, 0, 0), F64(FALSE, 0, 0, 0, 0, 0),
                   F64(TRUE, 1023, 0, 0, 0, 0)>>, {}),
  PrimitiveArray(<<"Float64">>,
                 <<F64(FALSE, 1023, 0, 0, 0, 0), F64(TRUE, 0, 0, 0, 0, 0),
                   F64(TRUE, 0, 0, 0, 0, 1)>>, {1}),
  \* 11..16: timestamps and dates
  PrimitiveArray(<<"Timestamp", "Second">>, <<0, 1700000000, -1>>, {}),
  PrimitiveArray(<<"Timestamp", "Millisecond">>, <<1, 2, 3>>, {3}),
  PrimitiveArray(<<"Timestamp", "Microsecond">>, <<-5, 6, 7>>, {}),
  PrimitiveArray(<<"Timestamp", "Nanosecond">>, <<8, -9, 10>>, {1, 2}),
  PrimitiveArray(<<"Date32">>, <<19000, -1, 0>>, {2}),
  PrimitiveArray(<<"Date64">>, <<86400000, -86400000, 0>>, {}),
  \* 17..22: text and binary
  PrimitiveArray(<<"Utf8">>, <<hello, bar, <<>>, grin, heaven_earth>>, {}),
  PrimitiveArray(<<"Utf8">>, <<hello, bar, <<>>, grin, heaven_earth>>, {3}),
  PrimitiveArray(<<"LargeUtf8">>, <<grin, heaven_earth, bar>>, {}),
  PrimitiveArray(<<"Binary">>, <<<<0>>, <<255, 128>>, <<1, 2, 3, 4, 5, 6, 7>>>>, {1}),
  PrimitiveArray(<<"LargeBinary">>, <<<<>>, <<0, 0, 0, 0>>, <<200>>>>, {}),
  PrimitiveArray(<<"FixedSizeBinary">>, <<<<1, 2>>, <<254, 255>>, <<0, 0>>>>, {3}),
  \* 23: decimal
  PrimitiveArray(<<"Decimal128">>, <<12345, -1, 0>>, {2}),
  \* 24..31: dictionaries over each supported key type
  DictionaryArray("Int8", <<0, 1, 0>>, {}, Texts),
  DictionaryArray("Int16", <<1, 0, 1>>, {2},
                  ValuesArray(<<"Int32">>, <<7, -7>>, {})),
  DictionaryArray("Int32", <<1, 0, 0>>, {},
                  ValuesArray(<<"Utf8">>, <<bar, hello>>, {2})),
  DictionaryArray("Int64", <<0, 0, 1>>, {3},
                  ValuesArray(<<"Float64">>,
                              <<F64(TRUE, 0, 0, 0, 0, 0), F64(FALSE, 1023, 0, 0, 0, 0)>>, {})),
  DictionaryArray("UInt8", <<1, 1, 0>>, {}, ValuesArray(<<"Int64">>, <<1, -1>>, {})),
  DictionaryArray("UInt16", <<0, 1, 1>>, {1}, ValuesArray(<<"Boolean">>, <<TRUE, FALSE>>, {})),
  DictionaryArray("UInt32", <<0, 1, 0>>, {}, ValuesArray(<<"Decimal128">>, <<5, -5>>, {})),
  DictionaryArray("UInt64", <<1, 0, 1>>, {},
                  DictionaryArray("Int8", <<1, 0, 1>>, {}, Texts)),
  \* 32..33: dictionaries whose keys are no index into the distinct values
  DictionaryArray("Int8", <<0, -1, 1>>, {}, Texts),
  DictionaryArray("Int32", <<1, 2, 0>>, {}, Texts),
  \* 34..37: types create_hashes does not hash
  PrimitiveArray(<<"UInt32">>, <<1, 2, 3>>, {}),
  PrimitiveArray(<<"Null">>, <<0>>, {1, 2, 3}),
  DictionaryArray("Utf8", <<0, 1, 0>>, {}, Texts),
  DictionaryArray("Int16", <<0, 1, 0>>, {}, ValuesArray(<<"UInt8">>, <<1, 2>>, {}))
>>

\* the columns that also appear in lists of more than one column
Core == {3, 8, 18, 25, 26, 32, 33, 34}

ColumnLists ==
  {<<c>> : c \in 1..Len(Columns)} \cup UNION {[1..k -> Core] : k \in 0..MaxCols}

\* the arrays of a list of column indices
ArraysOf(list) == [j \in 1..Len(list) |-> Columns[list[j]]]

\* array.slice(first - 1, last - first + 1): the rows first..last; the distinct
\* values of a dictionary are shared by the slice
slice(array, first, last) ==
  [array EXCEPT !.valid = SubSeq(array.valid, first, last),
                !.values = SubSeq(array.values, first, last)]

InitialSeeds ==
  { [i \in 1..NumRows |-> U32(0, 42)],
    [i \in 1..NumRows |-> U32(57000 + i, i - 1)] }

---------------------------------------------------------------------------
(* Hashing a column list: one create_hashes call over the whole list on      *)
(* hashes_buffer, then one call per column on chain, then one call per batch  *)
(* of rows on chunked.  All three start from the same initial seed array.     *)

\* what the caller sees of a call besides the buffer
Outcome(r) == [status |-> r.status, msg |-> r.msg, data_type |-> r.data_type, key |-> r.key]
NoCall == [status |-> "none", msg |-> "", data_type |-> <<>>, key |-> 0]

IdleHash ==
  /\ arrays = <<>> /\ initial = <<>> /\ pc = "idle" /\ hashes_buffer = <<>> /\ result = NoCall
  /\ chain = <<>> /\ chainPrev = <<>> /\ chainIdx = 0 /\ chainResult = NoCall
  /\ chainAllOk = TRUE /\ chunked = <<>> /\ chunkPos = 0 /\ chunkLast = 0 /\ chunkAllOk = TRUE
IdleMurmur == data = <<>> /\ seed = U32(0, 0) /\ digest = <<>>
IdlePmod == hash = U32(0, 0) /\ n = <<1, 0, 0, 0>> /\ partition = <<>>

Init ==
  /\ target_endian \in {"little", "big"}
  /\ overflow_checks = FALSE
  /\ arrays \in ColumnLists
  /\ initial \in InitialSeeds
  /\ pc = "start"
  /\ hashes_buffer = initial /\ result = NoCall
  /\ chain = initial /\ chainPrev = initial /\ chainIdx = 0 /\ chainResult = NoCall
  /\ chainAllOk = TRUE
  /\ chunked = initial /\ chunkPos = 0 /\ chunkLast = 0 /\ chunkAllOk = TRUE
  /\ IdleMurmur /\ IdlePmod

\* the call has returned r: the buffer as the call left it, and the rest of r
Returned(r) == hashes_buffer' = r.buf /\ result' = Outcome(r)

ColumnReturned(r) ==
  /\ chain' = r.buf
  /\ chainResult' = Outcome(r)
  /\ chainAllOk' = (chainAllOk /\ r.status = "Ok")

\* the call on rows first..last has returned r: its buffer is that slice of chunked
BatchReturned(r, first, last) ==
  /\ chunked' = [i \in 1..NumRows |->
                   IF i >= first /\ i <= last THEN r.buf[(i - first) + 1] ELSE chunked[i]]
  /\ chunkAllOk' = (chunkAllOk /\ r.status = "Ok")

\* the rows first..last of every column of the list
batch_of(list, first, last) == [j \in 1..Len(list) |-> slice(Columns[list[j]], first, last)]

\* create_hashes(&arrays, &mut hashes_buffer)
Call ==
  /\ pc = "start"
  /\ Returned(create_hashes(ArraysOf(arrays), hashes_buffer))
  /\ pc' = "called"
  /\ UNCHANGED <<target_endian, overflow_checks, arrays, initial, chain, chainPrev, chainIdx,
                 chainResult, chainAllOk, chunked, chunkPos, chunkLast, chunkAllOk,
                 murmurVars, pmodVars>>

\* create_hashes(&[arrays[chainIdx]], &mut chain): the next column alone
CallColumn ==
  /\ pc = "called"
  /\ chainIdx < Len(arrays)
  /\ ColumnReturned(create_hashes(<<Columns[arrays[chainIdx + 1]]>>, chain))
  /\ chainPrev' = chain
  /\ chainIdx' = chainIdx + 1
  /\ UNCHANGED <<target_endian, overflow_checks, arrays, initial, pc, hashes_buffer, result,
                 chunked, chunkPos, chunkLast, chunkAllOk, murmurVars, pmodVars>>

\* create_hashes over the next batch of rows, chunkPos + 1 .. last, of every column,
\* on the matching slice of chunked
CallBatch ==
  /\ pc = "called"
  /\ chainIdx = Len(arrays)
  /\ chunkPos < NumRows
  /\ \E last \in (chunkPos + 1)..NumRows :
       /\ BatchReturned(create_hashes(batch_of(arrays, chunkPos + 1, last),
                                      SubSeq(chunked, chunkPos + 1, last)),
                        chunkPos + 1, last)
       /\ chunkLast' = chunkPos + 1
       /\ chunkPos' = last
  /\ UNCHANGED <<target_endian, overflow_checks, arrays, initial, pc, hashes_buffer, result,
                 chain, chainPrev, chainIdx, chainResult, chainAllOk, murmurVars, pmodVars>>

Next == Call \/ CallColumn \/ CallBatch

Spec == Init /\ [][Next]_vars

---------------------------------------------------------------------------
(* Hashing one byte string *)

MaxLen == 6         \* longest byte string hashed on its own

abcdefgh == <<97, 98, 99, 100, 101, 102, 103, 104>>

ByteStrings ==
  UNION { {SubSeq(b, 1, k) : k \in {j \in 0..MaxLen : j <= Len(b)}} :
            b \in {abcdefgh, hello, grin, heaven_earth, <<255, 128, 127, 0, 200, 1, 2, 3>>} }

Seeds == {U32(0, 42), U32(0, 0), U32(65535, 65535)}

InitMurmur ==
  /\ target_endian \in {"little", "big"}
  /\ overflow_checks = FALSE
  /\ data \in ByteStrings
  /\ seed \in Seeds
  /\ digest = <<>>
  /\ IdleHash /\ IdlePmod

\* spark_compatible_murmur3_hash(data, seed)
Murmur3Hash ==
  /\ digest = <<>>
  /\ digest' = <<spark_compatible_murmur3_hash(data, seed)>>
  /\ UNCHANGED <<target_endian, overflow_checks, hashVars, data, seed, pmodVars>>

NextMurmur == Murmur3Hash

SpecMurmur == InitMurmur /\ [][NextMurmur]_vars

---------------------------------------------------------------------------
(* Mapping one hash to a partition *)

MaxPartitions == 8  \* every partition count from 1 to MaxPartitions is tried

Hashes ==
  { U32(39408, 5277), U32(40039, 47197), U32(51200, 34089), U32(41051, 23931),
    U32(52510, 25851),                          \* the hashes of test_pmod
    U32(0, 0), U32(0, 1), U32(32767, 65535), U32(32768, 0), U32(65535, 65535),
    U32(65535, 65534) }

PartitionCounts ==
  {<<k, 0, 0, 0>> : k \in 1..MaxPartitions}
    \cup { <<200, 0, 0, 0>>,
           <<65535, 32767, 0, 0>>,              \* 2^31 - 1
           <<0, 32768, 0, 0>>,                  \* 2^31
           <<24064, 45776, 0, 0>>,              \* 3 000 000 000
           <<65535, 65535, 0, 0>>,              \* 2^32 - 1
           <<0, 0, 1, 0>>,                      \* 2^32
           <<200, 0, 1, 0>> }                   \* 2^32 + 200

InitPmod ==
  /\ target_endian = "little"
  /\ overflow_checks \in BOOLEAN
  /\ hash \in Hashes
  /\ n \in PartitionCounts
  /\ partition = <<>>
  /\ IdleHash /\ IdleMurmur

\* pmod(hash, n)
Pmod ==
  /\ partition = <<>>
  /\ partition' = <<pmod(hash, n)>>
  /\ UNCHANGED <<target_endian, overflow_checks, hashVars, murmurVars, hash, n>>

NextPmod == Pmod

SpecPmod == InitPmod /\ [][NextPmod]_vars

---------------------------------------------------------------------------
(* The properties.  What the specification says of types, nulls and canonical *)
(* bytes is written here on its own, apart from the loops of create_hashes.    *)

\* the logical types the specification lists as supported
SupportedValueTypes ==
  {"Boolean", "Int8", "Int16", "Int32", "Int64", "Float32", "Float64", "Date32", "Date64",
   "Timestamp", "Utf8", "LargeUtf8", "Binary", "LargeBinary", "FixedSizeBinary", "Decimal128"}
SupportedKeyTypes == {"Int8", "Int16", "Int32", "Int64", "UInt8", "UInt16", "UInt32", "UInt64"}

RECURSIVE supported_type(_)
supported_type(dt) ==
  IF dt[1] = "Dictionary"
    THEN dt[2] \in SupportedKeyTypes /\ supported_type(SubSeq(dt, 3, Len(dt)))
    ELSE dt[1] \in SupportedValueTypes

\* the type an unsupported column is rejected for: the column's own type, or, for
\* a dictionary over a supported key type, what its distinct values are rejected for
RECURSIVE offending_type(_)
offending_type(dt) ==
  IF dt[1] = "Dictionary" /\ dt[2] \in SupportedKeyTypes
    THEN offending_type(SubSeq(dt, 3, Len(dt)))
    ELSE dt

is_dictionary(col) == col.data_type[1] = "Dictionary"

\* every non-null key of a dictionary column is an index into its distinct values
RECURSIVE keys_are_indexes(_)
keys_are_indexes(col) ==
  IF is_dictionary(col)
    THEN /\ keys_are_indexes(col.dictionary)
         /\ \A i \in 1..array_len(col) :
              col.valid[i] => (col.values[i] >= 0 /\ col.values[i] < array_len(col.dictionary))
    ELSE TRUE

\* the value of row i is null: the slot is null, or it is a valid key of a
\* dictionary whose distinct value at that key is null
RECURSIVE value_is_null(_, _)
value_is_null(col, i) ==
  \/ ~col.valid[i]
  \/ /\ is_dictionary(col)
     /\ col.values[i] >= 0
     /\ col.values[i] < array_len(col.dictionary)
     /\ value_is_null(col.dictionary, col.values[i] + 1)

\* the canonical little-endian bytes of the non-null value of row i of a column
\* that is no dictionary
canonical_bytes(col, i) ==
  LET t == col.data_type[1]
      v == col.values[i]
  IN CASE t = "Boolean" -> to_le_bytes(IF v THEN 1 ELSE 0, 4)
       [] t \in {"Int8", "Int16", "Int32", "Date32"} -> to_le_bytes(v, 4)
       [] t \in {"Int64", "Date64", "Timestamp"} -> to_le_bytes(v, 8)
       [] t = "Float32" -> IF float_is_zero(v) THEN <<0, 0, 0, 0>> ELSE float_to_le_bytes(v, "f32")
       [] t = "Float64" -> IF float_is_zero(v) THEN <<0, 0, 0, 0, 0, 0, 0, 0>>
                                               ELSE float_to_le_bytes(v, "f64")
       [] t = "Decimal128" -> to_le_bytes(v, 16)
       [] OTHER -> v

\* a call on one column alone has returned; StepColumn is that column, chainPrev
\* the seeds it was given and chain the seeds it left
ColumnDone == pc = "called" /\ chainIdx >= 1
StepColumn == Columns[arrays[chainIdx]]
Rows == 1..NumRows

\* the list holds at least one column, and only supported columns that are no dictionary
PlainList ==
  /\ Len(arrays) >= 1
  /\ \A j \in 1..Len(arrays) :
       supported_type(Columns[arrays[j]].data_type) /\ ~is_dictionary(Columns[arrays[j]])

\* the positions of the list whose column has an unsupported type
Unsupported == {j \in 1..Len(arrays) : ~supported_type(Columns[arrays[j]].data_type)}
FirstUnsupported == CHOOSE j \in Unsupported : \A k \in Unsupported : j <= k

\* a < b on usize
usize_less(a, b) == \E k \in 1..4 : a[k] < b[k] /\ \A j \in (k + 1)..4 : a[j] = b[j]

\* C1: null invariance.  After create_hashes has processed a column of a supported
\* type, every row whose value is null holds the seed it held before, dictionary
\* columns included.
C1_NullInvariance ==
  (ColumnDone /\ supported_type(StepColumn.data_type)) =>
    \A i \in Rows : value_is_null(StepColumn, i) => chain[i] = chainPrev[i]

\* C2: dictionary columns overwrite.  After create_hashes has processed a
\* dictionary column, every row with a non-null key k holds the hash create_hashes
\* gives the distinct value at k from seed 0, whatever seed the row held before:
\* after a call on the column alone, and after a call on a list that ends with it.
C2_DictionaryOverwrite ==
  /\ (ColumnDone /\ is_dictionary(StepColumn) /\ chainResult.status = "Ok") =>
       LET dict_values == StepColumn.dictionary
           direct == create_hashes(<<dict_values>>,
                                   [i \in 1..array_len(dict_values) |-> U32(0, 0)])
       IN /\ direct.status = "Ok"
          /\ \A i \in Rows :
               StepColumn.valid[i] =>
                 /\ chain[i] = direct.buf[StepColumn.values[i] + 1]
                 /\ (~is_dictionary(dict_values) /\ dict_values.valid[StepColumn.values[i] + 1]) =>
                      chain[i] = spark_compatible_murmur3_hash(
                                   canonical_bytes(dict_values, StepColumn.values[i] + 1),
                                   U32(0, 0))
  /\ (pc = "called" /\ Len(arrays) >= 1 /\ result.status = "Ok"
        /\ is_dictionary(Columns[arrays[Len(arrays)]])) =>
       LET last_column == Columns[arrays[Len(arrays)]]
           direct == create_hashes(<<last_column.dictionary>>,
                                   [i \in 1..array_len(last_column.dictionary) |-> U32(0, 0)])
       IN \A i \in Rows :
            last_column.valid[i] => hashes_buffer[i] = direct.buf[last_column.values[i] + 1]

\* a dictionary column processed after another column: a row with a non-null key
\* whose seed the earlier column had changed holds the hash of its distinct value
C2_Witness ==
  /\ ColumnDone /\ chainIdx = 2 /\ is_dictionary(StepColumn) /\ chainResult.status = "Ok"
  /\ \E i \in Rows :
       /\ StepColumn.valid[i]
       /\ chainPrev[i] # initial[i]
       /\ chain[i] # chainPrev[i]
       /\ chain[i] = hashes_buffer[i]

\* C3: seed chaining in column order.  For a list of supported columns that are no
\* dictionaries, one call over the list leaves the seeds that one call per column
\* leaves; each of those calls leaves a null row as it was and gives a non-null
\* row the murmur3 hash of the value's canonical bytes from the seed it held.
C3_SeedChaining ==
  /\ (ColumnDone /\ supported_type(StepColumn.data_type) /\ ~is_dictionary(StepColumn)) =>
       /\ chainResult.status = "Ok"
       /\ \A i \in Rows :
            chain[i] = IF StepColumn.valid[i]
                         THEN spark_compatible_murmur3_hash(canonical_bytes(StepColumn, i),
                                                            chainPrev[i])
                         ELSE chainPrev[i]
  /\ (pc = "called" /\ PlainList /\ chainIdx = Len(arrays)) =>
       (result.status = "Ok" /\ chainAllOk /\ hashes_buffer = chain)

\* two columns, the second hashed from the seeds the first one wrote
C3_Witness ==
  /\ pc = "called" /\ PlainList /\ Len(arrays) = 2 /\ chainIdx = 2
  /\ arrays[1] # arrays[2]
  /\ hashes_buffer = chain
  /\ \E i \in Rows : chainPrev[i] # initial[i] /\ chain[i] # chainPrev[i]

\* C4: pmod returns a valid partition index.  For every hash and every positive
\* count n, counts above 2^31 - 1 included, pmod returns, and returns r with
\* 0 <= r < n.
C4_ValidPartition ==
  partition # <<>> => (~partition[1].panic /\ usize_less(partition[1].value, n))

\* C5: the reference vectors.  With seed 42 the byte strings "", "a", "ab", "abc",
\* "abcd", "abcde" hash to the reference values, read as signed 32-bit integers.
C5_ReferenceVectors ==
  (digest # <<>> /\ seed = U32(0, 42)) =>
    /\ data = <<>> => as_i32(digest[1]) = 142593372
    /\ data = <<97>> => as_i32(digest[1]) = 1485273170
    /\ data = <<97, 98>> => as_i32(digest[1]) = -97053317
    /\ data = <<97, 98, 99>> => as_i32(digest[1]) = 1322437556
    /\ data = <<97, 98, 99, 100>> => as_i32(digest[1]) = -396302900
    /\ data = <<97, 98, 99, 100, 101>> => as_i32(digest[1]) = 814637928

\* n is in 1 .. 2^31 - 1
SignedCount == n[3] = 0 /\ n[4] = 0 /\ n[2] < 32768 /\ (n[1] > 0 \/ n[2] > 0)

\* C6: pmod is the signed modulo.  For n in 1 .. 2^31 - 1, with h the hash read as
\* a signed 32-bit integer and r the remainder of h by n truncated toward zero,
\* pmod returns (r + n) % n when r < 0 and r otherwise, the number in 0 .. n - 1
\* congruent to h modulo n; the five reference hashes give 69, 5, 193, 171, 115
\* for n = 200.
C6_SignedModulo ==
  (partition # <<>> /\ SignedCount) =>
    LET h == as_i32(hash)
        count == (n[2] * 65536) + n[1]
        floor == h % count
        r == IF h < 0 /\ floor # 0 THEN floor - count ELSE floor
        expected == IF r < 0 THEN (r + count) % count ELSE r
    IN /\ ~partition[1].panic
       /\ partition[1].value = <<expected % 65536, expected \div 65536, 0, 0>>
       /\ expected = floor
       /\ (n = <<200, 0, 0, 0>> /\ hash = U32(39408, 5277)) => expected = 69
       /\ (n = <<200, 0, 0, 0>> /\ hash = U32(40039, 47197)) => expected = 5
       /\ (n = <<200, 0, 0, 0>> /\ hash = U32(51200, 34089)) => expected = 193
       /\ (n = <<200, 0, 0, 0>> /\ hash = U32(41051, 23931)) => expected = 171
       /\ (n = <<200, 0, 0, 0>> /\ hash = U32(52510, 25851)) => expected = 115

\* a hash that is negative as a signed integer, mapped by the correction branch
C6_Witness ==
  /\ partition # <<>> /\ SignedCount
  /\ hash = U32(39408, 5277) /\ n = <<200, 0, 0, 0>>
  /\ partition[1] = [panic |-> FALSE, value |-> <<69, 0, 0, 0>>]

IsFloat(col) == col.data_type[1] \in {"Float32", "Float64"}
zero_bytes(col) == IF col.data_type[1] = "Float32" THEN to_le_bytes(0, 4) ELSE to_le_bytes(0, 8)
float_type(col) == IF col.data_type[1] = "Float32" THEN "f32" ELSE "f64"

\* C7: negative-zero folding.  In a Float32 or Float64 column, with or without
\* nulls, a row holding -0.0 and a row holding +0.0 both get the hash of the integer
\* 0 of the column's width from the seed they held, so equal seeds give equal
\* results; every other value is hashed from its own bit pattern.
C7_NegativeZero ==
  (ColumnDone /\ IsFloat(StepColumn)) =>
    /\ \A i \in Rows :
         StepColumn.valid[i] =>
           chain[i] = spark_compatible_murmur3_hash(
                        IF float_is_zero(StepColumn.values[i])
                          THEN zero_bytes(StepColumn)
                          ELSE float_to_le_bytes(StepColumn.values[i], float_type(StepColumn)),
                        chainPrev[i])
    /\ \A i, j \in Rows :
         (/\ StepColumn.valid[i] /\ StepColumn.valid[j]
          /\ float_is_zero(StepColumn.values[i]) /\ float_is_zero(StepColumn.values[j])
          /\ chainPrev[i] = chainPrev[j]) => chain[i] = chain[j]

\* a float column holding -0.0 and +0.0 in rows with the same seed
C7_Witness ==
  /\ ColumnDone /\ IsFloat(StepColumn)
  /\ \E i, j \in Rows :
       /\ StepColumn.valid[i] /\ StepColumn.valid[j]
       /\ float_is_zero(StepColumn.values[i]) /\ StepColumn.values[i].neg
       /\ float_is_zero(StepColumn.values[j]) /\ ~StepColumn.values[j].neg
       /\ chainPrev[i] = chainPrev[j]
       /\ chain[i] = chain[j]
       /\ chain[i] # chainPrev[i]

\* C8: chunking invariance.  When the call over all rows succeeds, the calls over
\* any sequence of contiguous batches of the rows, each on its slice of the seeds,
\* succeed and leave every row the seed the one call leaves it.
C8_Chunking ==
  (pc = "called" /\ result.status = "Ok" /\ chunkPos = NumRows) =>
    (chunkAllOk /\ chunked = hashes_buffer)

\* a list with a null in it, hashed in more than one batch, the last batch being
\* the last row alone
C8_Witness ==
  /\ pc = "called" /\ result.status = "Ok" /\ chunkPos = NumRows
  /\ chunkLast = NumRows
  /\ Len(arrays) = 2
  /\ \E j \in 1..2 : null_count(Columns[arrays[j]]) > 0
  /\ chunked = hashes_buffer
  /\ \A i \in Rows : chunked[i] # initial[i]

\* C9: no partial results on error.  Whenever create_hashes fails, every seed of
\* the caller's array holds the value it had before the call.
C9_NoPartialResult ==
  (pc = "called" /\ result.status = "Err") => hashes_buffer = initial

\* C10, as stated: for any list with a column of an unsupported type, at any
\* position, create_hashes returns an error that names the offending type.
C10_AsStated ==
  (pc = "called" /\ Unsupported # {}) =>
    /\ result.status = "Err"
    /\ \E j \in Unsupported : result.data_type = offending_type(Columns[arrays[j]].data_type)

\* C10: unsupported types are rejected.  For any list with a column of an
\* unsupported type, create_hashes does not return Ok; when every dictionary column
\* before the first such column holds only keys that are indexes into its distinct
\* values, it returns an error that names the type that column is rejected for.
C10_Rejected ==
  (pc = "called" /\ Unsupported # {}) =>
    /\ result.status # "Ok"
    /\ (\A j \in 1..(FirstUnsupported - 1) : keys_are_indexes(Columns[arrays[j]])) =>
         /\ result.status = "Err"
         /\ result.msg \in {"Unsupported data type in hasher",
                           "Unsupported dictionary type in hasher hashing"}
         /\ result.data_type = offending_type(Columns[arrays[FirstUnsupported]].data_type)

\* an unsupported column after a column that hashed: the error names its type
C10_Witness ==
  /\ pc = "called" /\ Len(arrays) = 2 /\ Unsupported = {2}
  /\ result.status = "Err"
  /\ result.data_type = Columns[arrays[2]].data_type
  /\ hashes_buffer # initial

\* the rows of a dictionary column whose non-null key is no index into its
\* distinct values: negative, or not below their number
BadKeyRows(col) ==
  {i \in 1..array_len(col) :
     col.valid[i] /\ (col.values[i] < 0 \/ col.values[i] >= array_len(col.dictionary))}
FirstBadKeyRow(col) == CHOOSE i \in BadKeyRows(col) : \A k \in BadKeyRows(col) : i <= k

\* C11: a dictionary key that cannot be converted is an error value.  After a call
\* on a dictionary column of a supported type holding a non-null key that is no
\* index into its distinct values, create_hashes has returned the key conversion
\* error naming that key and the dictionary type; it has not crashed and has not
\* written a hash for that row.
C11_KeyConversionError ==
  (/\ ColumnDone /\ is_dictionary(StepColumn) /\ supported_type(StepColumn.data_type)
   /\ keys_are_indexes(StepColumn.dictionary)
   /\ BadKeyRows(StepColumn) # {}) =>
    /\ chainResult.status = "Err"
    /\ chainResult.msg = "Can not convert key value to usize in dictionary of type"
    /\ chainResult.key = StepColumn.values[FirstBadKeyRow(StepColumn)]
    /\ chainResult.data_type = StepColumn.data_type
    /\ chain[FirstBadKeyRow(StepColumn)] = chainPrev[FirstBadKeyRow(StepColumn)]

=============================================================================
